---- MODULE Spec2Model ----
(***************************************************************************)
(* Halifax Parking Ban: the status pipeline of the React client            *)
(* (src/unnamed/part_001): the localStorage cache, the RSS classifier       *)
(* parseRSSFeed, and fetchStatus with its race over FETCH_SOURCES.          *)
(*                                                                         *)
(* Text is modelled as a sequence of chunks (short strings); the text is   *)
(* the concatenation of its chunks, and String.includes is containment of  *)
(* a contiguous run of chunks.  A Date is [valid, ms]; a date string is    *)
(* [fmt, n].  JavaScript runs one macrotask at a time and drains the       *)
(* microtask queue after it: the continuations of awaited promises are     *)
(* the entries of `microtasks`, and no other step runs while it is         *)
(* non-empty.                                                              *)
(*                                                                         *)
(* Spec, SpecBurst and FairSpec are the page with its race and cache.      *)
(* ParseSpec applies parseRSSFeed to a feed on its own, TransportSpec      *)
(* follows one request through the Worker (src/unnamed/part_002) or the    *)
(* mirror to the attempt that reads it, CountdownSpec is the countdown     *)
(* effect with its interval, and SeqSpec is fetchStatus of the App of      *)
(* src/src/App.tsx, which asks its proxies one after the other.            *)
(***************************************************************************)
EXTENDS Integers, Sequences, FiniteSets, TLC

\* ------------------------------------------------------------------ bounds

\* fetchStatus is called at most NumCalls times in a behaviour of Spec, and
\* once more in a behaviour of SpecBurst.
NumCalls == 2

\* The wall clock is advanced at most MaxTicks times in a behaviour.
MaxTicks == 1

\* A feed given to parseRSSFeed on its own holds at most MaxItems items.
MaxItems == 2

\* setInterval is called at most MaxTimers times in a behaviour of CountdownSpec.
MaxTimers == 3

\* The calls of fetchStatus of the sequential App that are followed.
NumSeqCalls == 2

\* ------------------------------------------------------- program constants

CACHE_DURATION_MS == 120000

NumSources == 2

\* CORS_PROXIES.length
NumProxies == 2

\* ------------------------------------------------------------- dates

InvalidDate == [valid |-> FALSE, ms |-> 0]

MkDate(ms) == [valid |-> TRUE, ms |-> ms]

NoDateString == [fmt |-> "empty", n |-> 0]

GarbageDateString == [fmt |-> "garbage", n |-> 0]

Rfc822(sec) == [fmt |-> "rfc822", n |-> sec]

JsonNull == [fmt |-> "null", n |-> 0]

\* new Date(x): an RFC-822 pubDate has second granularity, an ISO string
\* millisecond granularity, null is the epoch, anything else is Invalid Date.
NewDate(x) ==
  CASE x.fmt = "rfc822" -> MkDate(x.n * 1000)
    [] x.fmt = "iso" -> MkDate(x.n)
    [] x.fmt = "null" -> MkDate(0)
    [] OTHER -> InvalidDate

\* Date.prototype.toJSON, as JSON.stringify applies it: the ISO string of a
\* valid date, null for Invalid Date.
DateToJSON(d) == IF d.valid THEN [fmt |-> "iso", n |-> d.ms] ELSE JsonNull

\* DateGT with >= in place of >.
DateGE(a, b) == a.valid /\ b.valid /\ a.ms >= b.ms

\* itemDate > latestBanDate: a comparison with NaN is false.
DateGT(a, b) == a.valid /\ b.valid /\ a.ms > b.ms

\* -------------------------------------------------------------- text

\* String.prototype.toLowerCase on one chunk.
LowerChunk(ch) ==
  CASE ch = "Parking" -> "parking"
    [] ch = "Ban" -> "ban"
    [] ch = "Winter" -> "winter"
    [] ch = "Overnight" -> "overnight"
    [] ch = "Enforced" -> "enforced"
    [] ch = "Lifted" -> "lifted"
    [] ch = "Zone" -> "zone"
    [] ch = "Both" -> "both"
    [] ch = "Monday" -> "monday"
    [] ch = "Tuesday" -> "tuesday"
    [] ch = "Jan" -> "jan"
    [] ch = "Feb" -> "feb"
    [] ch = "May" -> "may"
    [] ch = "To" -> "to"
    [] ch = "Be" -> "be"
    [] ch = "Storm" -> "storm"
    [] ch = "Impacts" -> "impacts"
    [] ch = "<!DOCTYPE html" -> "<!doctype html"
    [] ch = "<HTML" -> "<html"
    [] OTHER -> ch

ToLowerCase(text) == [i \in DOMAIN text |-> LowerChunk(text[i])]

\* String.prototype.includes.
Includes(text, phrase) ==
  \E i \in 1..(Len(text) - Len(phrase) + 1) :
    SubSeq(text, i, i + Len(phrase) - 1) = phrase

\* title + ' ' + description
Combined(item) == item.title \o <<" ">> \o item.description

Weekdays ==
  {"monday", "tuesday", "wednesday", "thursday", "friday", "saturday", "sunday"}

Months ==
  {"jan", "feb", "mar", "apr", "may", "jun", "jul", "aug", "sep", "oct", "nov", "dec"}

\* One chunk per digit character.
DigitChunks == {"0", "1", "2", "3", "4", "5", "6", "7", "8", "9"}

\* \s* from position j: the first position that holds no white space.
RECURSIVE SkipSpace(_, _)
SkipSpace(text, j) ==
  IF j <= Len(text) /\ text[j] = " " THEN SkipSpace(text, j + 1) ELSE j

\* \d+ from position j: the position after the last digit chunk of the run.
RECURSIVE SkipDigits(_, _)
SkipDigits(text, j) ==
  IF j <= Len(text) /\ text[j] \in DigitChunks THEN SkipDigits(text, j + 1) ELSE j

\* The end (exclusive) of a match of the date pattern that starts at i, or 0:
\* weekday ,? \s* month \.? \s* \d+   (flag i).  "May" takes no period.
DateMatchEnd(text, i) ==
  IF ~(i <= Len(text) /\ LowerChunk(text[i]) \in Weekdays) THEN 0
  ELSE
    LET a == IF i + 1 <= Len(text) /\ text[i + 1] = "," THEN i + 2 ELSE i + 1
        b == SkipSpace(text, a)
    IN  IF ~(b <= Len(text) /\ LowerChunk(text[b]) \in Months) THEN 0
        ELSE
          LET c == IF b + 1 <= Len(text) /\ text[b + 1] = "."
                      /\ LowerChunk(text[b]) # "may"
                   THEN b + 2 ELSE b + 1
              d == SkipSpace(text, c)
              e == SkipDigits(text, d)
          IN  IF e > d THEN e ELSE 0

\* title.match(...): the leftmost match as [from, to), or <<0, 0>> for null.
DateMatch(text) ==
  LET starts == {i \in 1..Len(text) : DateMatchEnd(text, i) # 0}
  IN  IF starts = {} THEN <<0, 0>>
      ELSE LET i == CHOOSE k \in starts : \A m \in starts : k <= m
           IN  <<i, DateMatchEnd(text, i)>>

\* dateMatch[0].replace(/\./g, '')
StripPeriods(text) == SelectSeq(text, LAMBDA ch : ch # ".")

\* null where the code holds a string or null (a text never holds this chunk).
NullText == <<"(null)">>

\* ExtractEnforcementDate with commas stripped as well as periods.
ExtractEnforcementDateNoPunctuation(title) ==
  LET m == DateMatch(title)
  IN  IF m[1] = 0 THEN NullText
      ELSE SelectSeq(SubSeq(title, m[1], m[2] - 1), LAMBDA ch : ch \notin {".", ","})

ExtractEnforcementDate(title) ==
  LET m == DateMatch(title)
  IN  IF m[1] = 0 THEN NullText
      ELSE StripPeriods(SubSeq(title, m[1], m[2] - 1))

\* ------------------------------------------------------- parseRSSFeed

\* An item as the classifier reads it: textContent || '' of each child.
MkItem(title, description, pubDate, link) ==
  [title |-> title, description |-> description, pubDate |-> pubDate, link |-> link]

\* IsParkingBanItem with any mention of parking taken as relevant.
IsParkingBanItemAnyParking(item) ==
  Includes(ToLowerCase(Combined(item)), <<"parking">>)

IsParkingBanItem(item) ==
  LET searchText == ToLowerCase(Combined(item))
  IN  \/ Includes(searchText, <<"parking", " ", "ban">>)
      \/ Includes(searchText, <<"winter", " ", "parking">>)
      \/ Includes(searchText, <<"overnight", " ", "parking">>)

\* The forEach loop: acc = [item |-> index of latestBanItem or 0,
\* date |-> latestBanDate, set |-> latestBanDate is not null].
RECURSIVE SelectLatest(_, _, _)
SelectLatest(items, i, acc) ==
  IF i > Len(items) THEN acc
  ELSE
    LET itemDate == NewDate(items[i].pubDate)
        take == IsParkingBanItem(items[i])
                  /\ (~acc.set \/ DateGT(itemDate, acc.date))
    IN  SelectLatest(items, i + 1,
          IF take THEN [item |-> i, date |-> itemDate, set |-> TRUE] ELSE acc)

ENFORCEMENT_TIME == <<"1:00 AM - 6:00 AM">>

DefaultStatus(now) ==
  [isActive |-> FALSE, zone1Active |-> FALSE, zone2Active |-> FALSE,
   enforcementDate |-> NullText, enforcementTime |-> ENFORCEMENT_TIME,
   lastUpdate |-> MkDate(now),
   rawTitle |-> <<"No recent parking ban announcements">>,
   link |-> <<"https://www.halifax.ca/transportation/winter-operations/parking-ban">>]

\* IsLifted with the lift keywords ignored.
IsLiftedIgnored(content) == FALSE

IsLifted(content) ==
  Includes(content, <<"lifts">>) \/ Includes(content, <<"lifted">>)

IsEnforced(content) ==
  \/ Includes(content, <<"enforced">>)
  \/ Includes(content, <<"will", " ", "be", " ", "enforced">>)
  \/ Includes(content, <<"in", " ", "effect">>)
  \/ Includes(content, <<"declared">>)
  \/ Includes(content, <<"announcing">>)

Zone1Mentioned(content) ==
  \/ Includes(content, <<"zone", " ", "1">>)
  \/ Includes(content, <<"zone", " ", "1", " ", "-", " ", "central">>)

Zone2Mentioned(content) ==
  \/ Includes(content, <<"zone", " ", "2">>)
  \/ Includes(content, <<"zone", " ", "2", " ", "-", " ", "non-central">>)

\* ClassifyItem with the zone flags taken from the mentions alone.
ClassifyItemZonesUngated(item, latestBanDate) ==
  LET content == ToLowerCase(Combined(item))
      isActive == IsEnforced(content) /\ ~IsLifted(content)
      z1 == Zone1Mentioned(content)
      z2 == Zone2Mentioned(content)
      bothZones == (z1 /\ z2) \/ Includes(content, <<"both", " ", "zone">>)
                     \/ (~z1 /\ ~z2)
  IN  [isActive |-> isActive,
       zone1Active |-> z1 \/ bothZones,
       zone2Active |-> z2 \/ bothZones,
       enforcementDate |-> ExtractEnforcementDate(item.title),
       enforcementTime |-> ENFORCEMENT_TIME,
       lastUpdate |-> latestBanDate,
       rawTitle |-> item.title,
       link |-> item.link]

\* ClassifyItem without the city-wide default for a text that names no zone.
ClassifyItemNoCityWide(item, latestBanDate) ==
  LET content == ToLowerCase(Combined(item))
      isActive == IsEnforced(content) /\ ~IsLifted(content)
      z1 == Zone1Mentioned(content)
      z2 == Zone2Mentioned(content)
      bothZones == (z1 /\ z2) \/ Includes(content, <<"both", " ", "zone">>)
  IN  [isActive |-> isActive,
       zone1Active |-> isActive /\ (z1 \/ bothZones),
       zone2Active |-> isActive /\ (z2 \/ bothZones),
       enforcementDate |-> ExtractEnforcementDate(item.title),
       enforcementTime |-> ENFORCEMENT_TIME,
       lastUpdate |-> latestBanDate,
       rawTitle |-> item.title,
       link |-> item.link]

ClassifyItem(item, latestBanDate) ==
  LET content == ToLowerCase(Combined(item))
      isActive == IsEnforced(content) /\ ~IsLifted(content)
      z1 == Zone1Mentioned(content)
      z2 == Zone2Mentioned(content)
      bothZones == (z1 /\ z2) \/ Includes(content, <<"both", " ", "zone">>)
                     \/ (~z1 /\ ~z2)
  IN  [isActive |-> isActive,
       zone1Active |-> isActive /\ (z1 \/ bothZones),
       zone2Active |-> isActive /\ (z2 \/ bothZones),
       enforcementDate |-> ExtractEnforcementDate(item.title),
       enforcementTime |-> ENFORCEMENT_TIME,
       lastUpdate |-> latestBanDate,
       rawTitle |-> item.title,
       link |-> item.link]

\* ParseRSSFeed with the ban taken as active when any relevant item, not
\* only the selected one, announces an enforcement.
ParseRSSFeedAnyEnforced(items, now) ==
  LET sel == SelectLatest(items, 1, [item |-> 0, date |-> InvalidDate, set |-> FALSE])
      st == ClassifyItem(items[sel.item], sel.date)
      any == \E i \in 1..Len(items) :
               IsParkingBanItem(items[i]) /\ IsEnforced(ToLowerCase(Combined(items[i])))
  IN  IF sel.item = 0 \/ ~sel.set THEN DefaultStatus(now)
      ELSE [st EXCEPT !.isActive = any]

\* parseRSSFeed on the items the DOM yields for the text, at clock time now.
ParseRSSFeed(items, now) ==
  LET sel == SelectLatest(items, 1, [item |-> 0, date |-> InvalidDate, set |-> FALSE])
  IN  IF sel.item = 0 \/ ~sel.set THEN DefaultStatus(now)
      ELSE ClassifyItem(items[sel.item], sel.date)

\* ------------------------------------------------------------- cache

\* A value that may be null: <<>> is null, <<v>> is v.
Null == <<>>

Some(v) == <<v>>

\* JSON.stringify of a status: every field is kept but lastUpdate, a Date,
\* which is written by its toJSON.
StatusToJSON(st) == [st EXCEPT !.lastUpdate = DateToJSON(st.lastUpdate)]

\* setCachedData: the localStorage content after the write.
SetCachedData(st, now) == Some([status |-> StatusToJSON(st), timestamp |-> now])

\* CacheFresh with the window's end counted in.
CacheFreshInclusive(stored, now) ==
  stored # Null /\ now - stored[1].timestamp <= CACHE_DURATION_MS

CacheFresh(stored, now) ==
  stored # Null /\ now - stored[1].timestamp < CACHE_DURATION_MS

\* getCachedData: the status returned (or Null).
GetCachedData(stored, now) ==
  IF CacheFresh(stored, now)
  THEN Some([stored[1].status EXCEPT !.lastUpdate = NewDate(@)])
  ELSE Null

\* getCachedData: the localStorage content it leaves (an expired entry is removed).
CacheAfterGet(stored, now) == IF CacheFresh(stored, now) THEN stored ELSE Null

\* ------------------------------------------------------ response bodies

\* A response body: its text (chunks) and the <item> elements that
\* DOMParser + querySelectorAll('item') yield for it.
MkBody(text, items) == [text |-> text, items |-> items]

\* String.prototype.trim
RECURSIVE TrimStart(_)
TrimStart(text) ==
  IF text # <<>> /\ Head(text) = " " THEN TrimStart(Tail(text)) ELSE text

StartsWith(text, ch) == text # <<>> /\ Head(text) = ch

\* text.trim().startsWith('{')
LooksLikeJSON(body) == StartsWith(TrimStart(body.text), "{")

ItemEnforced ==
  MkItem(<<"Parking", " ", "Ban", " ", "To", " ", "Be", " ", "Enforced", " ",
           "Monday", ",", " ", "Jan", " ", "1", "5">>,
         <<"Zone", " ", "1">>, Rfc822(5), <<"https://www.halifax.ca/news/a">>)

ItemUndated ==
  MkItem(<<"Winter", " ", "parking", " ", "ban", " ", "lifted">>,
         <<>>, NoDateString, <<"https://www.halifax.ca/news/b">>)

ItemOther ==
  MkItem(<<"Storm", " ", "Impacts">>, <<"roads">>, Rfc822(9), <<>>)

\* Both keyword sets match; zone 2 only.
ItemLiftedAndEnforced ==
  MkItem(<<"overnight", " ", "parking", " ", "ban", " ", "enforced", " ",
           "then", " ", "lifted">>,
         <<"zone", " ", "2">>, Rfc822(9), <<"https://www.halifax.ca/news/c">>)

\* No zone is named; published at the same second as ItemEnforced.
ItemDeclared ==
  MkItem(<<"parking", " ", "ban", " ", "declared">>,
         <<>>, Rfc822(5), <<"https://www.halifax.ca/news/d">>)

\* A pubDate that Date cannot parse.
ItemGarbageDate ==
  MkItem(<<"announcing", " ", "parking", " ", "ban", " ", "lifts">>,
         <<"zone", " ", "1">>, GarbageDateString, <<"https://www.halifax.ca/news/e">>)

\* Mentions parking and an enforcement keyword, but no relevance phrase.
ItemParkingLot ==
  MkItem(<<"Parking", " ", "lot", " ", "closed">>, <<"enforced">>, Rfc822(9), <<>>)

\* The date stands in the description; zone 2 and "both zones" are named.
ItemDateInDescription ==
  MkItem(<<"Parking", " ", "Ban", " ", "in", " ", "effect">>,
         <<"Monday", ",", " ", "Jan", " ", "1", "5", " ", "zone", " ", "2", " ",
           "both", " ", "zone", "s">>,
         Rfc822(7), <<"https://www.halifax.ca/news/f">>)

Items ==
  {ItemEnforced, ItemUndated, ItemOther, ItemLiftedAndEnforced, ItemDeclared,
   ItemGarbageDate, ItemParkingLot, ItemDateInDescription}

\* The item sequences parseRSSFeed is given on its own.
Feeds == UNION {[1..n -> Items] : n \in 0..MaxItems}

BodyEmpty == MkBody(<<>>, <<>>)

BodyJSON == MkBody(<<" ", "{", "\"error\"", "}">>, <<>>)

BodyFeedEnforced == MkBody(<<"<?xml", "<rss">>, <<ItemOther, ItemEnforced>>)

BodyFeedUndated == MkBody(<<"<rss">>, <<ItemUndated>>)

\* The bodies a source may answer with.
Bodies == {BodyEmpty, BodyJSON, BodyFeedEnforced, BodyFeedUndated}

\* ------------------------------------------------------- state machine

Calls == 1..(NumCalls + 1)

\* The calls of fetchStatus of the sequential App.
SeqCalls == 1..NumSeqCalls

Proxies == 1..NumProxies

Sources == 1..NumSources

\* Date.now() moves on by one of these between macrotasks.
Durations == {CACHE_DURATION_MS - 1, CACHE_DURATION_MS}

ERROR_MESSAGE == "Unable to fetch parking ban status. Please try again later."

VARIABLES
  now,                \* Date.now()
  ticks,              \* how often the clock was advanced
  cache,              \* localStorage[CACHE_KEY]: Null or Some([status, timestamp])
  fetchInProgressRef, \* 0 (null) or the race whose fetchPromise it holds
  status,             \* useState status: Null or Some(status)
  loading,            \* useState loading
  error,              \* useState error: Null or Some(message)
  callPc,             \* per fetchStatus call: "idle", "waiting", "racing", "done"
  awaiting,           \* per live call: the race whose promise it awaits (0: none)
  waitedOn,           \* per live call: the in-flight race it found and awaited (0: none)
  race,               \* per race (named by the call that started it): its fetchPromise
  src,                \* per race and source: the source's attempt
  microtasks,         \* the calls to resume, in order, before any macrotask
  feed,               \* the items of the text parseRSSFeed is called with
  parsed,             \* what that call returned: Null or Some(status)
  upstream,           \* what halifax.ca answers to one request for the feed
  via,                \* the source of FETCH_SOURCES that request goes through
  response,           \* the response the browser gets from that source: Null or Some
  attempt,            \* the attempt of fetchStatus that reads that response
  method,             \* the method of that request: "GET" or "OPTIONS"
  handler,            \* the handler of /api/rss that is deployed
  clock,              \* local wall-clock time, in ms since local midnight
  countdown,          \* useState countdown: Null or Some(text)
  countdownIntervalRef, \* 0 (null) or the id of the interval it holds
  intervals,          \* the ids of the intervals that are live
  timersMade,         \* how often setInterval was called
  mounted,            \* the component has not been unmounted
  seqPc,              \* sequential fetcher, per call: "idle", "fetching", "reading", "done"
  seqProxy,           \* per call: the index in CORS_PROXIES of the proxy in use (0: none yet)
  seqRequests,        \* the requests sent so far, in order: <<call, proxy>>
  seqStatus,          \* useState status of the sequential App
  seqLoading,         \* useState loading of the sequential App
  seqError            \* useState error of the sequential App

\* The state of the page: fetchStatus, its race and the cache.
appVars ==
  <<now, ticks, cache, fetchInProgressRef, status, loading, error,
    callPc, awaiting, waitedOn, race, src, microtasks>>

\* One call of parseRSSFeed, looked at on its own.
parseVars == <<feed, parsed>>

\* One request for the feed followed from halifax.ca to parseRSSFeed.
transportVars == <<upstream, via, response, attempt, method, handler>>

\* The countdown effect and its interval.
countdownVars ==
  <<clock, countdown, countdownIntervalRef, intervals, timersMade, mounted>>

\* The App of src/src/App.tsx, which tries its proxies one after the other.
seqVars == <<seqPc, seqProxy, seqRequests, seqStatus, seqLoading, seqError>>

\* What a step of the page leaves alone.
asideVars == <<parseVars, transportVars, countdownVars, seqVars>>

vars == <<appVars, parseVars, transportVars, countdownVars, seqVars>>

\* The promise of a race: state is "unused", "running", "won" or "failed";
\* result is the status it is fulfilled with, winner the source that gave it,
\* awaiters the calls that await it, in the order in which they began to.
MkRace(state, result, awaiters, winner) ==
  [state |-> state, result |-> result, awaiters |-> awaiters, winner |-> winner]

NoRace == MkRace("unused", Null, <<>>, 0)

\* An attempt: st is "unused", "fetching" (request sent, timer armed),
\* "reading" (response.text() pending), "fulfilled" or "rejected"; `ok` is
\* response.ok of the response it holds, `body` the body it was fulfilled
\* with and `value` the status it returned.
MkAttempt(st, timer, ok, body, value) ==
  [st |-> st, timer |-> timer, ok |-> ok, body |-> body, value |-> value]

NoAttempt == MkAttempt("unused", FALSE, FALSE, Null, Null)

Rejected == MkAttempt("rejected", FALSE, FALSE, Null, Null)

NoAttempts == [s \in Sources |-> NoAttempt]

AllEnded(attempts) == \A s \in Sources : attempts[s].st \in {"fulfilled", "rejected"}

AppInit ==
  /\ now = 0
  /\ ticks = 0
  /\ cache = Null
  /\ fetchInProgressRef = 0
  /\ status = Null
  /\ loading = TRUE
  /\ error = Null
  /\ callPc = [c \in Calls |-> "idle"]
  /\ awaiting = [c \in Calls |-> 0]
  /\ waitedOn = [c \in Calls |-> 0]
  /\ race = [c \in Calls |-> NoRace]
  /\ src = [c \in Calls |-> NoAttempts]
  /\ microtasks = <<>>

\* No call of parseRSSFeed is looked at on its own.
ParseIdle == feed = <<>> /\ parsed = Null

\* No request is followed on its own.
TransportIdle ==
  /\ upstream = Null
  /\ via = 0
  /\ response = Null
  /\ attempt = NoAttempt
  /\ method = ""
  /\ handler = ""

\* The countdown after the mount with no status: no value, no interval.
CountdownMounted ==
  /\ countdown = Null
  /\ countdownIntervalRef = 0
  /\ intervals = {}
  /\ timersMade = 0
  /\ mounted = TRUE

CountdownIdle == clock = 0 /\ CountdownMounted

\* The sequential App after construction: useState(null), useState(true),
\* useState(null), no call made.
SeqIdle ==
  /\ seqPc = [c \in SeqCalls |-> "idle"]
  /\ seqProxy = [c \in SeqCalls |-> 0]
  /\ seqRequests = <<>>
  /\ seqStatus = Null
  /\ seqLoading = TRUE
  /\ seqError = Null

Init == AppInit /\ ParseIdle /\ TransportIdle /\ CountdownIdle /\ SeqIdle

\* Only what the running program still holds is kept.  Once the last call
\* that awaited a settled promise has resumed, nothing refers to its value;
\* once its last attempt has ended too, nothing is left of the race.
ReleasedRace(raceF, srcF, r, last) ==
  IF ~last THEN raceF
  ELSE IF AllEnded(srcF[r]) THEN [raceF EXCEPT ![r] = NoRace]
  ELSE [raceF EXCEPT ![r] = MkRace(@.state, Null, <<>>, 0)]

ReleasedSrc(srcF, r, last) ==
  IF last /\ AllEnded(srcF[r]) THEN [srcF EXCEPT ![r] = NoAttempts] ELSE srcF

\* The calls are made in order: call c is made after call c - 1.
CanCall(c) ==
  /\ microtasks = <<>>
  /\ callPc[c] = "idle"
  /\ \A b \in Calls : b < c => callPc[b] # "idle"

\* Lines 216-248: setLoading(true), setError(null), the async IIFE is created
\* and runs up to its first await (every source has sent its request and
\* armed its timer), and its promise is stored in fetchInProgressRef.
\* raceF and srcF are the promises as the call finds them.
StartRace(c, raceF, srcF) ==
  /\ loading' = TRUE
  /\ error' = Null
  /\ race' = [raceF EXCEPT ![c] = MkRace("running", Null, <<c>>, 0)]
  /\ src' = [srcF EXCEPT ![c] =
               [s \in Sources |-> MkAttempt("fetching", TRUE, FALSE, Null, Null)]]
  /\ fetchInProgressRef' = c
  /\ callPc' = [callPc EXCEPT ![c] = "racing"]
  /\ awaiting' = [awaiting EXCEPT ![c] = c]

\* FetchStatusCached that serves the entry and refreshes it from the network.
FetchStatusCachedRevalidates(c) ==
  /\ CanCall(c)
  /\ GetCachedData(cache, now) # Null
  /\ status' = GetCachedData(cache, now)
  /\ cache' = CacheAfterGet(cache, now)
  /\ StartRace(c, race, src)
  /\ UNCHANGED <<now, ticks, waitedOn, microtasks>>

\* fetchStatus, a fresh cache entry exists (lines 193-200).
FetchStatusCached(c) ==
  /\ CanCall(c)
  /\ GetCachedData(cache, now) # Null
  /\ status' = GetCachedData(cache, now)
  /\ loading' = FALSE
  /\ error' = Null
  /\ cache' = CacheAfterGet(cache, now)
  /\ callPc' = [callPc EXCEPT ![c] = "done"]
  /\ UNCHANGED <<now, ticks, fetchInProgressRef, awaiting, waitedOn, race, src, microtasks>>

\* fetchStatus, no fresh entry and a fetch in progress: await it (lines 203-205).
FetchStatusWait(c) ==
  /\ CanCall(c)
  /\ GetCachedData(cache, now) = Null
  /\ fetchInProgressRef # 0
  /\ cache' = CacheAfterGet(cache, now)
  /\ callPc' = [callPc EXCEPT ![c] = "waiting"]
  /\ awaiting' = [awaiting EXCEPT ![c] = fetchInProgressRef]
  /\ waitedOn' = [waitedOn EXCEPT ![c] = fetchInProgressRef]
  /\ race' = [race EXCEPT ![fetchInProgressRef].awaiters = Append(@, c)]
  /\ UNCHANGED <<now, ticks, fetchInProgressRef, status, loading, error, src, microtasks>>

\* fetchStatus, no fresh entry and nothing in progress: start the race.
FetchStatusRace(c) ==
  /\ CanCall(c)
  /\ GetCachedData(cache, now) = Null
  /\ fetchInProgressRef = 0
  /\ cache' = CacheAfterGet(cache, now)
  /\ StartRace(c, race, src)
  /\ UNCHANGED <<now, ticks, status, waitedOn, microtasks>>

FetchStatus(c) ==
  \/ FetchStatusCached(c)
  \/ FetchStatusWait(c)
  \/ FetchStatusRace(c)

\* SourceEnds with Promise.race in place of Promise.any: the first source to
\* end decides the race, also when it is rejected.
SourceEndsFirstSettled(r, s, att) ==
  LET running == race[r].state = "running"
      kept == IF running THEN att ELSE [att EXCEPT !.body = Null, !.value = Null]
      newSrc == [src EXCEPT ![r][s] = kept]
      wins == running /\ att.st = "fulfilled"
      fails == running /\ att.st = "rejected"
  IN  /\ src' = ReleasedSrc(newSrc, r, ~running)
      /\ race' = IF wins THEN [race EXCEPT ![r] = MkRace("won", att.value, <<>>, s)]
                 ELSE IF fails THEN [race EXCEPT ![r] = MkRace("failed", Null, <<>>, 0)]
                 ELSE ReleasedRace(race, newSrc, r, ~running)
      /\ cache' = IF wins THEN SetCachedData(att.value[1], now) ELSE cache
      /\ fetchInProgressRef' = IF wins \/ fails THEN 0 ELSE fetchInProgressRef
      /\ microtasks' = IF wins \/ fails THEN race[r].awaiters ELSE microtasks

\* SourceEnds with a failed race cached as "no announcements".
SourceEndsCachesFailure(r, s, att) ==
  LET running == race[r].state = "running"
      kept == IF running THEN att ELSE [att EXCEPT !.body = Null, !.value = Null]
      newSrc == [src EXCEPT ![r][s] = kept]
      wins == running /\ att.st = "fulfilled"
      fails == running /\ \A t \in Sources : newSrc[r][t].st = "rejected"
  IN  /\ src' = ReleasedSrc(newSrc, r, ~running)
      /\ race' = IF wins THEN [race EXCEPT ![r] = MkRace("won", att.value, <<>>, s)]
                 ELSE IF fails THEN [race EXCEPT ![r] = MkRace("failed", Null, <<>>, 0)]
                 ELSE ReleasedRace(race, newSrc, r, ~running)
      /\ cache' = IF wins THEN SetCachedData(att.value[1], now)
                  ELSE IF fails THEN SetCachedData(DefaultStatus(now), now)
                  ELSE cache
      /\ fetchInProgressRef' = IF wins \/ fails THEN 0 ELSE fetchInProgressRef
      /\ microtasks' = IF wins \/ fails THEN race[r].awaiters ELSE microtasks

\* SourceEnds with every fulfilled source writing the cache and clearing the
\* in-flight record, also after the race is settled.
SourceEndsLateWrites(r, s, att) ==
  LET running == race[r].state = "running"
      kept == IF running THEN att ELSE [att EXCEPT !.body = Null, !.value = Null]
      newSrc == [src EXCEPT ![r][s] = kept]
      wins == running /\ att.st = "fulfilled"
      fails == running /\ \A t \in Sources : newSrc[r][t].st = "rejected"
  IN  /\ src' = ReleasedSrc(newSrc, r, ~running)
      /\ race' = IF wins THEN [race EXCEPT ![r] = MkRace("won", att.value, <<>>, s)]
                 ELSE IF fails THEN [race EXCEPT ![r] = MkRace("failed", Null, <<>>, 0)]
                 ELSE ReleasedRace(race, newSrc, r, ~running)
      /\ cache' = IF att.st = "fulfilled" THEN SetCachedData(att.value[1], now)
                  ELSE cache
      /\ fetchInProgressRef' =
           IF wins \/ fails \/ att.st = "fulfilled" THEN 0 ELSE fetchInProgressRef
      /\ microtasks' = IF wins \/ fails THEN race[r].awaiters ELSE microtasks

\* Promise.any over the sources of race r once source s has ended as `att`,
\* then the rest of the async IIFE (lines 225-245): on the first fulfilment
\* the result is cached; when the race settles the finally block clears
\* fetchInProgressRef and the awaiting calls are resumed in the order in
\* which they began to await.  Promise.any drops what a source returns after
\* the race is settled.
SourceEnds(r, s, att) ==
  LET running == race[r].state = "running"
      kept == IF running THEN att ELSE [att EXCEPT !.body = Null, !.value = Null]
      newSrc == [src EXCEPT ![r][s] = kept]
      wins == running /\ att.st = "fulfilled"
      fails == running /\ \A t \in Sources : newSrc[r][t].st = "rejected"
  IN  /\ src' = ReleasedSrc(newSrc, r, ~running)
      /\ race' = IF wins THEN [race EXCEPT ![r] = MkRace("won", att.value, <<>>, s)]
                 ELSE IF fails THEN [race EXCEPT ![r] = MkRace("failed", Null, <<>>, 0)]
                 ELSE ReleasedRace(race, newSrc, r, ~running)
      /\ cache' = IF wins THEN SetCachedData(att.value[1], now) ELSE cache
      /\ fetchInProgressRef' = IF wins \/ fails THEN 0 ELSE fetchInProgressRef
      /\ microtasks' = IF wins \/ fails THEN race[r].awaiters ELSE microtasks

\* fetch() resolves with the response headers; fetchWithTimeout's finally
\* clears the timer; a response that is not ok throws (lines 183-186, 229).
ResponseArrives(r, s, ok) ==
  /\ microtasks = <<>>
  /\ src[r][s].st = "fetching"
  /\ SourceEnds(r, s, IF ok THEN MkAttempt("reading", FALSE, TRUE, Null, Null)
                            ELSE Rejected)
  /\ UNCHANGED <<now, ticks, status, loading, error, callPc, awaiting, waitedOn>>

\* fetch() rejects with a network error.
FetchFails(r, s) ==
  /\ microtasks = <<>>
  /\ src[r][s].st = "fetching"
  /\ SourceEnds(r, s, Rejected)
  /\ UNCHANGED <<now, ticks, status, loading, error, callPc, awaiting, waitedOn>>

\* The timer of fetchWithTimeout fires: controller.abort() rejects the fetch.
TimeoutFires(r, s) ==
  /\ microtasks = <<>>
  /\ src[r][s].timer
  /\ src[r][s].st = "fetching"
  /\ SourceEnds(r, s, Rejected)
  /\ UNCHANGED <<now, ticks, status, loading, error, callPc, awaiting, waitedOn>>

\* A response: status code, body, and whether it carries
\* Access-Control-Allow-Origin: *.
MkResponse(st, body, cors) == [status |-> st, body |-> body, cors |-> cors]

\* Response.ok
Ok(resp) == resp.status >= 200 /\ resp.status <= 299

\* AttemptOutcome with a parser that throws on a document without items.
AttemptOutcomeParseThrows(resp, now_) ==
  IF ~Ok(resp) THEN Rejected
  ELSE IF LooksLikeJSON(resp.body) THEN Rejected
  ELSE IF resp.body.items = <<>> THEN Rejected
  ELSE MkAttempt("fulfilled", FALSE, TRUE, Some(resp.body),
                 Some(ParseRSSFeed(resp.body.items, now_)))

\* One element of fetchAttempts, given the response of its source.
AttemptOutcome(resp, now_) ==
  IF ~Ok(resp) THEN Rejected
  ELSE IF LooksLikeJSON(resp.body) THEN Rejected
  ELSE MkAttempt("fulfilled", FALSE, TRUE, Some(resp.body),
                 Some(ParseRSSFeed(resp.body.items, now_)))

\* response.text() resolves on a response whose ok was true: a body that
\* looks like JSON throws, any other is parsed (lines 230-235).
BodyArrives(r, s, body) ==
  /\ microtasks = <<>>
  /\ src[r][s].st = "reading"
  /\ SourceEnds(r, s, AttemptOutcome(MkResponse(200, body, TRUE), now))
  /\ UNCHANGED <<now, ticks, status, loading, error, callPc, awaiting, waitedOn>>

\* response.text() rejects: the connection broke while the body was read.
BodyFails(r, s) ==
  /\ microtasks = <<>>
  /\ src[r][s].st = "reading"
  /\ SourceEnds(r, s, Rejected)
  /\ UNCHANGED <<now, ticks, status, loading, error, callPc, awaiting, waitedOn>>

IsNext(c) == microtasks # <<>> /\ Head(microtasks) = c

IsLast == Tail(microtasks) = <<>>

\* The call that started the race resumes after `await fetchPromise`
\* (lines 250-258).
ResumeStarter(c) ==
  /\ IsNext(c)
  /\ callPc[c] = "racing"
  /\ microtasks' = Tail(microtasks)
  /\ IF race[c].state = "won"
     THEN /\ status' = race[c].result
          /\ error' = error
     ELSE /\ error' = Some(ERROR_MESSAGE)
          /\ status' = status
  /\ loading' = FALSE
  /\ callPc' = [callPc EXCEPT ![c] = "done"]
  /\ awaiting' = [awaiting EXCEPT ![c] = 0]
  /\ waitedOn' = [waitedOn EXCEPT ![c] = 0]
  /\ race' = ReleasedRace(race, src, c, IsLast)
  /\ src' = ReleasedSrc(src, c, IsLast)
  /\ UNCHANGED <<now, ticks, cache, fetchInProgressRef>>

\* ResumeWaiterWon without the return of line 209: the call falls through
\* and starts a race although it was served.
ResumeWaiterWonFallsThrough(c) ==
  /\ IsNext(c)
  /\ callPc[c] = "waiting"
  /\ race[awaiting[c]].state = "won"
  /\ microtasks' = Tail(microtasks)
  /\ status' = race[awaiting[c]].result
  /\ StartRace(c, ReleasedRace(race, src, awaiting[c], IsLast),
                  ReleasedSrc(src, awaiting[c], IsLast))
  /\ UNCHANGED <<now, ticks, cache, waitedOn>>

\* A call that awaited another call's promise resumes with its result
\* (lines 205-209).
ResumeWaiterWon(c) ==
  /\ IsNext(c)
  /\ callPc[c] = "waiting"
  /\ race[awaiting[c]].state = "won"
  /\ microtasks' = Tail(microtasks)
  /\ status' = race[awaiting[c]].result
  /\ loading' = FALSE
  /\ error' = Null
  /\ callPc' = [callPc EXCEPT ![c] = "done"]
  /\ awaiting' = [awaiting EXCEPT ![c] = 0]
  /\ waitedOn' = [waitedOn EXCEPT ![c] = 0]
  /\ race' = ReleasedRace(race, src, awaiting[c], IsLast)
  /\ src' = ReleasedSrc(src, awaiting[c], IsLast)
  /\ UNCHANGED <<now, ticks, cache, fetchInProgressRef>>

\* ResumeWaiterFailed with a catch block that reports the failure and returns.
ResumeWaiterFailedGivesUp(c) ==
  /\ IsNext(c)
  /\ callPc[c] = "waiting"
  /\ race[awaiting[c]].state = "failed"
  /\ microtasks' = Tail(microtasks)
  /\ error' = Some(ERROR_MESSAGE)
  /\ loading' = FALSE
  /\ fetchInProgressRef' = 0
  /\ callPc' = [callPc EXCEPT ![c] = "done"]
  /\ awaiting' = [awaiting EXCEPT ![c] = 0]
  /\ waitedOn' = [waitedOn EXCEPT ![c] = 0]
  /\ race' = ReleasedRace(race, src, awaiting[c], IsLast)
  /\ src' = ReleasedSrc(src, awaiting[c], IsLast)
  /\ UNCHANGED <<now, ticks, cache, status>>

\* A call that awaited another call's promise resumes with its failure: the
\* catch block clears fetchInProgressRef and the call goes on to start a
\* race of its own (lines 210-248).
ResumeWaiterFailed(c) ==
  /\ IsNext(c)
  /\ callPc[c] = "waiting"
  /\ race[awaiting[c]].state = "failed"
  /\ microtasks' = Tail(microtasks)
  /\ StartRace(c, ReleasedRace(race, src, awaiting[c], IsLast),
                  ReleasedSrc(src, awaiting[c], IsLast))
  /\ UNCHANGED <<now, ticks, cache, status, waitedOn>>

\* Time passes between macrotasks.  The code reads the clock only to stamp a
\* cache entry and to take the age of one, so the clock is started by the
\* first entry: it stands still while nothing is stored.
Advance(d) ==
  /\ microtasks = <<>>
  /\ ticks < MaxTicks
  /\ cache # Null
  /\ now' = now + d
  /\ ticks' = ticks + 1
  /\ UNCHANGED <<cache, fetchInProgressRef, status, loading, error,
                 callPc, awaiting, waitedOn, race, src, microtasks>>

\* One step of the page and its network, fetchStatus being called by `callers`.
Step(callers) ==
  \/ \E c \in callers : FetchStatus(c) /\ UNCHANGED asideVars
  \/ \E r \in Calls, s \in Sources, ok \in BOOLEAN : ResponseArrives(r, s, ok) /\ UNCHANGED asideVars
  \/ \E r \in Calls, s \in Sources : FetchFails(r, s) /\ UNCHANGED asideVars
  \/ \E r \in Calls, s \in Sources : TimeoutFires(r, s) /\ UNCHANGED asideVars
  \/ \E r \in Calls, s \in Sources, body \in Bodies : BodyArrives(r, s, body) /\ UNCHANGED asideVars
  \/ \E r \in Calls, s \in Sources : BodyFails(r, s) /\ UNCHANGED asideVars
  \/ \E c \in Calls : ResumeStarter(c) /\ UNCHANGED asideVars
  \/ \E c \in Calls : ResumeWaiterWon(c) /\ UNCHANGED asideVars
  \/ \E c \in Calls : ResumeWaiterFailed(c) /\ UNCHANGED asideVars
  \/ \E d \in Durations : Advance(d) /\ UNCHANGED asideVars

Next == Step(1..NumCalls)

Spec == Init /\ [][Next]_vars

\* One more call than in Spec: two calls can await the race of a third.
NextBurst == Step(Calls)

SpecBurst == Init /\ [][NextBurst]_vars

\* parseRSSFeed on its own: a feed is given, the function is applied to it.
ParseInit ==
  /\ AppInit /\ TransportIdle /\ CountdownIdle /\ SeqIdle
  /\ feed \in Feeds
  /\ parsed = Null

ParseFeed ==
  /\ parsed = Null
  /\ parsed' = Some(ParseRSSFeed(feed, now))
  /\ UNCHANGED <<seqVars, appVars, transportVars, countdownVars, feed>>

ParseNext == ParseFeed

ParseSpec == ParseInit /\ [][ParseNext]_vars

\* ------------------------------------------------ the two transport paths

\* What halifax.ca gives: a response, or none (network error, or no headers
\* before the proxy's timer fires).
MkUpstream(failed, st, body) == [failed |-> failed, status |-> st, body |-> body]

UpstreamStatuses == {200, 403, 503}

BodyBotChallenge ==
  MkBody(<<"<!DOCTYPE html", "<title>", "Just a moment...", "</title>">>, <<>>)

BodyBotVerification ==
  MkBody(<<" ", "<HTML", "<div id=", "cf-browser-verification", ">">>, <<>>)

BodyHTMLPage == MkBody(<<"<html", "<body>", "No news in this category">>, <<>>)

BodyPlainText == MkBody(<<"Service", " ", "unavailable">>, <<>>)

BodyAtomFeed == MkBody(<<" ", "<feed", "</feed>">>, <<>>)

\* An <item> without children, and one with a description only.
ItemNoChildren == MkItem(<<>>, <<>>, NoDateString, <<>>)

ItemDescriptionOnly ==
  MkItem(<<>>, <<"Overnight", " ", "parking", " ", "ban", " ", "declared">>,
         NoDateString, <<>>)

BodyFeedBare == MkBody(<<"<rss">>, <<ItemNoChildren, ItemDescriptionOnly>>)

\* Markup that breaks off: the DOM holds an error node and, depending on the
\* browser, the items read before the error.
BodyMalformed == MkBody(<<"<?xml", "<rss", "<item>", "<title>">>, <<>>)

BodyMalformedPartial ==
  MkBody(<<"<?xml", "<rss", "<item>", "</item>", "<item>">>, <<ItemNoChildren>>)

UpstreamBodies ==
  Bodies \cup {BodyBotChallenge, BodyBotVerification, BodyHTMLPage, BodyPlainText,
               BodyAtomFeed, BodyFeedBare, BodyMalformed, BodyMalformedPartial}

Upstreams ==
  {MkUpstream(FALSE, st, b) : st \in UpstreamStatuses, b \in UpstreamBodies}
    \cup {MkUpstream(TRUE, 0, BodyEmpty)}

\* JSON.stringify({ error: ... }) as the proxy sends it.
JsonError(st) == MkResponse(st, MkBody(<<"{", "\"error\"", "}">>, <<>>), TRUE)

\* The minimal feed the proxy sends for a non-XML upstream body.
EMPTY_FEED == MkBody(<<"<?xml", "<rss", "<channel>", "</channel>", "</rss>">>, <<>>)

IsBotBlock(body) ==
  \/ Includes(TrimStart(body.text), <<"Just a moment...">>)
  \/ Includes(TrimStart(body.text), <<"cf-browser-verification">>)

IsHTML(body) ==
  \/ StartsWith(ToLowerCase(TrimStart(body.text)), "<!doctype html")
  \/ StartsWith(ToLowerCase(TrimStart(body.text)), "<html")

IsXML(body) ==
  \/ StartsWith(TrimStart(body.text), "<?xml")
  \/ StartsWith(TrimStart(body.text), "<rss")
  \/ StartsWith(TrimStart(body.text), "<feed")

\* The Worker's answer to a preflight: no body, the CORS headers.
WorkerOptions == MkResponse(200, BodyEmpty, TRUE)

\* WorkerFetch with the HTML test made before the bot test.
WorkerFetchHTMLFirst(up) ==
  IF up.failed THEN JsonError(502)
  ELSE IF ~Ok(up) THEN JsonError(up.status)
  ELSE IF IsHTML(up.body) \/ ~IsXML(up.body) THEN MkResponse(200, EMPTY_FEED, TRUE)
  ELSE IF IsBotBlock(up.body) THEN JsonError(503)
  ELSE MkResponse(200, up.body, TRUE)

\* WorkerFetch without the content tests: an ok upstream body is passed on.
WorkerFetchPassesOn(up) ==
  IF up.failed THEN JsonError(502)
  ELSE IF ~Ok(up) THEN JsonError(up.status)
  ELSE MkResponse(200, up.body, TRUE)

\* The Worker's answer to GET /api/rss, given what halifax.ca gave it.
WorkerFetch(up) ==
  IF up.failed THEN JsonError(502)
  ELSE IF ~Ok(up) THEN JsonError(up.status)
  ELSE IF IsBotBlock(up.body) THEN JsonError(503)
  ELSE IF IsHTML(up.body) \/ ~IsXML(up.body) THEN MkResponse(200, EMPTY_FEED, TRUE)
  ELSE MkResponse(200, up.body, TRUE)

\* The answer of api.allorigins.win/raw: the upstream response as it is, or
\* an error of its own when it got none.
MirrorFetch(up) ==
  IF up.failed THEN MkResponse(500, BodyPlainText, TRUE)
  ELSE MkResponse(up.status, up.body, TRUE)

\* The earlier handler of /api/rss: any method, no timer, no content tests.
EarlierWorkerFetch(up) ==
  IF up.failed
  THEN MkResponse(500, MkBody(<<"Error fetching RSS feed">>, <<>>), FALSE)
  ELSE IF ~Ok(up)
  THEN MkResponse(502, MkBody(<<"Failed to fetch RSS feed">>, <<>>), FALSE)
  ELSE MkResponse(200, up.body, TRUE)

Methods == {"GET", "OPTIONS"}

Handlers == {"entry", "earlier"}

\* The page sends GET; a preflight is the browser's and no attempt reads it.
TransportInit ==
  /\ AppInit
  /\ ParseIdle
  /\ CountdownIdle
  /\ SeqIdle
  /\ upstream \in {Some(u) : u \in Upstreams}
  /\ via \in Sources
  /\ method \in (IF via = 1 THEN Methods ELSE {"GET"})
  /\ handler \in (IF via = 1 THEN Handlers ELSE {""})
  /\ response = Null
  /\ attempt = IF method = "GET" THEN MkAttempt("fetching", TRUE, FALSE, Null, Null)
               ELSE NoAttempt

\* Source 1, '/api/rss': the Worker answers.
WorkerResponds ==
  /\ via = 1
  /\ handler = "entry"
  /\ response = Null
  /\ response' = Some(IF method = "OPTIONS" THEN WorkerOptions
                      ELSE WorkerFetch(upstream[1]))
  /\ UNCHANGED <<seqVars, appVars, parseVars, countdownVars, upstream, via, attempt,
                 method, handler>>

\* Source 1 with the earlier handler deployed.
EarlierWorkerResponds ==
  /\ via = 1
  /\ handler = "earlier"
  /\ response = Null
  /\ response' = Some(EarlierWorkerFetch(upstream[1]))
  /\ UNCHANGED <<seqVars, appVars, parseVars, countdownVars, upstream, via, attempt,
                 method, handler>>

\* Source 2, the AllOrigins mirror, answers.
MirrorResponds ==
  /\ via = 2
  /\ response = Null
  /\ response' = Some(MirrorFetch(upstream[1]))
  /\ UNCHANGED <<seqVars, appVars, parseVars, countdownVars, upstream, via, attempt,
                 method, handler>>

\* The attempt checks response.ok, reads the text and parses it.
AttemptReads ==
  /\ response # Null
  /\ attempt.st = "fetching"
  /\ attempt' = AttemptOutcome(response[1], now)
  /\ UNCHANGED <<seqVars, appVars, parseVars, countdownVars, upstream, via, response,
                 method, handler>>

TransportNext ==
  WorkerResponds \/ EarlierWorkerResponds \/ MirrorResponds \/ AttemptReads

TransportSpec == TransportInit /\ [][TransportNext]_vars

\* ------------------------------------------------------- the countdown

MS_PER_SECOND == 1000

MS_PER_MINUTE == 1000 * 60

MS_PER_HOUR == 1000 * 60 * 60

MS_PER_DAY == 24 * MS_PER_HOUR

\* The local time h:m:s as ms since local midnight.
HMS(h, m, s) == ((h * 60 + m) * 60 + s) * 1000

\* The local times at which the clock is read.
ClockTimes ==
  {HMS(0, 0, 0), HMS(0, 59, 59) + 999, HMS(1, 0, 0), HMS(2, 0, 0),
   HMS(5, 59, 59) + 999, HMS(6, 0, 0), HMS(23, 30, 0), HMS(23, 30, 0) + 500,
   HMS(23, 59, 59)}

DigitChars == <<"0", "1", "2", "3", "4", "5", "6", "7", "8", "9">>

\* Number.prototype.toString of a natural number, one chunk per character.
RECURSIVE NumberToString(_)
NumberToString(n) ==
  IF n < 10 THEN <<DigitChars[n + 1]>>
  ELSE NumberToString(n \div 10) \o <<DigitChars[(n % 10) + 1]>>

\* padStart(2, '0')
PadStart2(text) == IF Len(text) < 2 THEN <<"0">> \o text ELSE text

IN_EFFECT_NOW == <<"IN EFFECT NOW">>

\* CalculateCountdown with the window's last hour counted in.
CalculateCountdownThroughSix(t) ==
  LET getHours == t \div MS_PER_HOUR
      next1AM == HMS(1, 0, 0) + (IF getHours >= 6 THEN MS_PER_DAY ELSE 0)
      diff == next1AM - t
  IN  IF getHours >= 1 /\ getHours <= 6 THEN IN_EFFECT_NOW
      ELSE PadStart2(NumberToString(diff \div MS_PER_HOUR)) \o <<":">>
             \o PadStart2(NumberToString((diff % MS_PER_HOUR) \div MS_PER_MINUTE))
             \o <<":">>
             \o PadStart2(NumberToString((diff % MS_PER_MINUTE) \div MS_PER_SECOND))

\* calculateCountdown at local time t: the text it passes to setCountdown.
CalculateCountdown(t) ==
  LET getHours == t \div MS_PER_HOUR
      next1AM == HMS(1, 0, 0) + (IF getHours >= 6 THEN MS_PER_DAY ELSE 0)
      diff == next1AM - t
  IN  IF getHours >= 1 /\ getHours < 6 THEN IN_EFFECT_NOW
      ELSE PadStart2(NumberToString(diff \div MS_PER_HOUR)) \o <<":">>
             \o PadStart2(NumberToString((diff % MS_PER_HOUR) \div MS_PER_MINUTE))
             \o <<":">>
             \o PadStart2(NumberToString((diff % MS_PER_MINUTE) \div MS_PER_SECOND))

\* The effect's dependency status?.isActive: 0 undefined, 1 false, 2 true.
IsActiveDep(st) == IF st = Null THEN 0 ELSE IF st[1].isActive THEN 2 ELSE 1

\* clearInterval that clears nothing.
ClearIntervalForgotten(live, id) == live

\* clearInterval(id): the intervals that stay live.
ClearInterval(live, id) == live \ {id}

\* The statuses setStatus is called with.
StatusSamples ==
  {ParseRSSFeed(<<ItemEnforced>>, 0), ParseRSSFeed(<<ItemDeclared>>, 0),
   ParseRSSFeed(<<ItemUndated>>, 0), DefaultStatus(0)}

CountdownInit ==
  /\ AppInit
  /\ ParseIdle
  /\ TransportIdle
  /\ SeqIdle
  /\ clock \in ClockTimes
  /\ CountdownMounted

\* setStatus(st) and the render it causes.  When status?.isActive has
\* changed, the previous effect's cleanup runs and then the effect: both
\* clear the interval the ref holds; an inactive status clears the countdown,
\* an active one computes it and starts a new interval.
SetStatus(st) ==
  /\ mounted
  /\ status' = Some(st)
  /\ IF IsActiveDep(Some(st)) = IsActiveDep(status)
     THEN UNCHANGED <<countdown, countdownIntervalRef, intervals, timersMade>>
     ELSE LET cleared == ClearInterval(intervals, countdownIntervalRef)
          IN  IF ~st.isActive
              THEN /\ countdown' = Null
                   /\ countdownIntervalRef' = 0
                   /\ intervals' = cleared
                   /\ UNCHANGED timersMade
              ELSE /\ timersMade < MaxTimers
                   /\ countdown' = Some(CalculateCountdown(clock))
                   /\ timersMade' = timersMade + 1
                   /\ countdownIntervalRef' = timersMade + 1
                   /\ intervals' = cleared \cup {timersMade + 1}
  /\ UNCHANGED <<now, ticks, cache, fetchInProgressRef, loading, error, callPc,
                 awaiting, waitedOn, race, src, microtasks>>
  /\ UNCHANGED <<seqVars, parseVars, transportVars, clock, mounted>>

\* Time passes, or the clock is set: the next reading is t.
ClockMoves(t) ==
  /\ clock' = t
  /\ t # clock
  /\ UNCHANGED <<seqVars, appVars, parseVars, transportVars, countdown,
                 countdownIntervalRef, intervals, timersMade, mounted>>

\* A live interval fires: calculateCountdown.  setCountdown does nothing
\* once the component is unmounted.
IntervalFires(id) ==
  /\ id \in intervals
  /\ countdown' = IF mounted THEN Some(CalculateCountdown(clock)) ELSE countdown
  /\ UNCHANGED <<seqVars, appVars, parseVars, transportVars, clock,
                 countdownIntervalRef, intervals, timersMade, mounted>>

\* The component is unmounted: the effect's cleanup runs.
Unmount ==
  /\ mounted
  /\ mounted' = FALSE
  /\ intervals' = ClearInterval(intervals, countdownIntervalRef)
  /\ countdownIntervalRef' = 0
  /\ UNCHANGED <<seqVars, appVars, parseVars, transportVars, clock, countdown, timersMade>>

CountdownNext ==
  \/ \E st \in StatusSamples : SetStatus(st)
  \/ \E t \in ClockTimes : ClockMoves(t)
  \/ \E id \in 1..MaxTimers : IntervalFires(id)
  \/ Unmount

CountdownSpec == CountdownInit /\ [][CountdownNext]_vars

\* The event loop runs what is due: a timer that is armed fires unless it is
\* cleared, and a queued microtask runs.  The network owes nothing: a
\* response or a body may never arrive.
Fairness ==
  /\ \A r \in Calls, s \in Sources :
       WF_vars(TimeoutFires(r, s) /\ UNCHANGED asideVars)
  /\ \A c \in Calls :
       WF_vars((ResumeStarter(c) \/ ResumeWaiterWon(c) \/ ResumeWaiterFailed(c))
                 /\ UNCHANGED asideVars)

FairSpec == Init /\ [][Next]_vars /\ Fairness

\* ------------------------------------- the sequential fetcher (src/src/App.tsx)

\* Only the title decides whether an item is about the parking ban.
SeqIsParkingBanItem(item) ==
  \/ Includes(ToLowerCase(item.title), <<"parking", " ", "ban">>)
  \/ Includes(ToLowerCase(item.title), <<"winter", " ", "parking">>)

RECURSIVE SeqSelectLatest(_, _, _)
SeqSelectLatest(items, i, acc) ==
  IF i > Len(items) THEN acc
  ELSE
    LET itemDate == NewDate(items[i].pubDate)
        take == SeqIsParkingBanItem(items[i])
                  /\ (~acc.set \/ DateGT(itemDate, acc.date))
    IN  SeqSelectLatest(items, i + 1,
          IF take THEN [item |-> i, date |-> itemDate, set |-> TRUE] ELSE acc)

SeqIsEnforced(content) ==
  \/ Includes(content, <<"enforced">>)
  \/ Includes(content, <<"will", " ", "be", " ", "enforced">>)

SeqClassifyItem(item, latestBanDate) ==
  LET content == ToLowerCase(Combined(item))
      isActive == SeqIsEnforced(content) /\ ~IsLifted(content)
      z1 == Zone1Mentioned(content)
      z2 == Zone2Mentioned(content)
      bothZones == (z1 /\ z2) \/ Includes(content, <<"both", " ", "zone">>)
                     \/ (~z1 /\ ~z2)
  IN  [isActive |-> isActive,
       zone1Active |-> isActive /\ (z1 \/ bothZones),
       zone2Active |-> isActive /\ (z2 \/ bothZones),
       enforcementDate |-> ExtractEnforcementDate(item.title),
       enforcementTime |-> ENFORCEMENT_TIME,
       lastUpdate |-> latestBanDate,
       rawTitle |-> item.title,
       link |-> item.link]

\* parseRSSFeed of src/src/App.tsx.
SeqParseRSSFeed(items, now_) ==
  LET sel == SeqSelectLatest(items, 1, [item |-> 0, date |-> InvalidDate, set |-> FALSE])
  IN  IF sel.item = 0 \/ ~sel.set THEN DefaultStatus(now_)
      ELSE SeqClassifyItem(items[sel.item], sel.date)

\* The calls are made in order.
SeqCanCall(c) ==
  /\ seqPc[c] = "idle"
  /\ \A b \in SeqCalls : b < c => seqPc[b] # "idle"

\* fetch(proxyFn(RSS_FEED_URL)) for proxy p: the request is sent.
SeqContact(c, p) ==
  /\ seqPc' = [seqPc EXCEPT ![c] = "fetching"]
  /\ seqProxy' = [seqProxy EXCEPT ![c] = p]
  /\ seqRequests' = Append(seqRequests, <<c, p>>)

\* SeqAfterFailure with the loop left at the first failure.
SeqAfterFailureGivesUp(c) ==
  /\ seqError' = Some(ERROR_MESSAGE)
  /\ seqLoading' = FALSE
  /\ seqPc' = [seqPc EXCEPT ![c] = "done"]
  /\ UNCHANGED <<seqProxy, seqRequests, seqStatus>>

\* `continue`: the next proxy of the list is tried; after the last one the
\* error is set and loading ends (lines 115-133).
SeqAfterFailure(c) ==
  IF seqProxy[c] < NumProxies
  THEN /\ SeqContact(c, seqProxy[c] + 1)
       /\ UNCHANGED <<seqStatus, seqLoading, seqError>>
  ELSE /\ seqError' = Some(ERROR_MESSAGE)
       /\ seqLoading' = FALSE
       /\ seqPc' = [seqPc EXCEPT ![c] = "done"]
       /\ UNCHANGED <<seqProxy, seqRequests, seqStatus>>

\* fetchStatus is called: setLoading(true), setError(null), and the first
\* proxy is asked (lines 112-117).
SeqFetchStatus(c) ==
  /\ SeqCanCall(c)
  /\ seqLoading' = TRUE
  /\ seqError' = Null
  /\ SeqContact(c, 1)
  /\ UNCHANGED seqStatus

\* The response of the proxy in use arrives; one that is not ok is skipped
\* (line 118).
SeqResponseArrives(c, ok) ==
  /\ seqPc[c] = "fetching"
  /\ IF ok
     THEN /\ seqPc' = [seqPc EXCEPT ![c] = "reading"]
          /\ UNCHANGED <<seqProxy, seqRequests, seqStatus, seqLoading, seqError>>
     ELSE SeqAfterFailure(c)

\* fetch() rejects (lines 125-128).
SeqFetchThrows(c) ==
  /\ seqPc[c] = "fetching"
  /\ SeqAfterFailure(c)

\* response.text() resolves: the text is parsed and shown (lines 120-124).
SeqBodyArrives(c, body) ==
  /\ seqPc[c] = "reading"
  /\ seqStatus' = Some(SeqParseRSSFeed(body.items, now))
  /\ seqLoading' = FALSE
  /\ seqPc' = [seqPc EXCEPT ![c] = "done"]
  /\ UNCHANGED <<seqProxy, seqRequests, seqError>>

\* response.text() rejects (lines 125-128).
SeqBodyThrows(c) ==
  /\ seqPc[c] = "reading"
  /\ SeqAfterFailure(c)

SeqNext ==
  \/ \E c \in SeqCalls : SeqFetchStatus(c) /\ UNCHANGED <<appVars, parseVars, transportVars, countdownVars>>
  \/ \E c \in SeqCalls, ok \in BOOLEAN : SeqResponseArrives(c, ok) /\ UNCHANGED <<appVars, parseVars, transportVars, countdownVars>>
  \/ \E c \in SeqCalls : SeqFetchThrows(c) /\ UNCHANGED <<appVars, parseVars, transportVars, countdownVars>>
  \/ \E c \in SeqCalls, body \in UpstreamBodies : SeqBodyArrives(c, body) /\ UNCHANGED <<appVars, parseVars, transportVars, countdownVars>>
  \/ \E c \in SeqCalls : SeqBodyThrows(c) /\ UNCHANGED <<appVars, parseVars, transportVars, countdownVars>>

SeqSpec == Init /\ [][SeqNext]_vars

\* ---------------------------------------------------------------- claims

Running == {r \in Calls : race[r].state = "running"}

\* The step resumes call c, which awaited another call's race, with the
\* outcome `how` of that race.
WaiterResumes(c, how) ==
  /\ IsNext(c)
  /\ callPc[c] = "waiting"
  /\ race[awaiting[c]].state = how
  /\ microtasks' = Tail(microtasks)

\* The step resumes call c, which started its race, with the outcome `how`.
StarterResumes(c, how) ==
  /\ IsNext(c)
  /\ callPc[c] = "racing"
  /\ race[c].state = how
  /\ microtasks' = Tail(microtasks)

\* C1: whatever calls of fetchStatus are made and however they interleave
\* with the network, at most one fetch race is outstanding at any time.
C1_AtMostOneRace == Cardinality(Running) <= 1

C4_FailureNeverCached ==
  [][/\ cache' # cache =>
          \/ \E r \in Calls :
               /\ race[r].state = "running" /\ race'[r].state = "won"
               /\ \E s \in Sources : src'[r][s].st = "fulfilled"
               /\ cache' = Some([status |-> StatusToJSON(race'[r].result[1]),
                                 timestamp |-> now])
          \/ /\ cache' = Null
             /\ now - cache[1].timestamp >= CACHE_DURATION_MS
             /\ \E c \in Calls : callPc[c] = "idle" /\ callPc'[c] # "idle"
     /\ \A r \in Calls :
          (race[r].state = "running" /\ race'[r].state = "failed") => cache' = cache
     /\ \A c \in Calls :
          (WaiterResumes(c, "failed") \/ StarterResumes(c, "failed")) => cache' = cache
    ]_vars

\* An earlier result was displayed, its cache entry has expired and was
\* erased, and the race that followed has failed: nothing is stored.
C4_Witness ==
  \E r \in Calls :
    /\ race[r].state = "failed"
    /\ IsNext(r)
    /\ status # Null
    /\ cache = Null

\* The step is a call of fetchStatus by c.
Called(c) == callPc[c] = "idle" /\ callPc'[c] # "idle"

\* What getCachedData rebuilds from the stored entry.
StoredStatus == [cache[1].status EXCEPT !.lastUpdate = NewDate(@)]

\* C5: getCachedData returns the stored status only while now - timestamp <
\* 120000 ms.  A call of fetchStatus is served from the cache exactly when an
\* entry is stored and is younger than that; with no entry, or one of 120000
\* ms or more, the call gets null: it goes to the network (or to the race in
\* flight), the displayed status is not touched and the entry is gone.
C5_CacheExpiry ==
  [][\A c \in Calls : Called(c) =>
        IF cache # Null /\ now - cache[1].timestamp < 120000
        THEN callPc'[c] = "done" /\ status' = Some(StoredStatus)
        ELSE /\ callPc'[c] \in {"waiting", "racing"}
             /\ status' = status
             /\ cache' = Null]_vars

\* A status was displayed and stored, the window has elapsed, and a call has
\* found the entry expired: the entry is gone and the call is on the network.
C5_Witness ==
  \E c \in Calls :
    /\ callPc[c] = "racing"
    /\ waitedOn[c] = 0
    /\ status # Null
    /\ cache = Null
    /\ now >= CACHE_DURATION_MS

\* C6: setCachedData(status) followed by getCachedData() within the window
\* gives back status, equal in every field, for every status parseRSSFeed
\* produces: the entry a race has just stored reads back as the race's result.
C6_CacheRoundTrip ==
  \A r \in Calls :
    (/\ race[r].state = "won"
     /\ race[r].result # Null
     /\ cache # Null
     /\ cache[1].status = StatusToJSON(race[r].result[1])
     /\ now - cache[1].timestamp < CACHE_DURATION_MS)
    => GetCachedData(cache, now) = race[r].result

\* C7: with a fresh entry stored, a call of fetchStatus displays the stored
\* status with loading false and error null, sends no request and starts no
\* race, and leaves the entry and the in-flight record as they were.
C7_CacheHitIsLocal ==
  [][\A c \in Calls :
        (Called(c) /\ cache # Null /\ now - cache[1].timestamp < CACHE_DURATION_MS) =>
          /\ status' = Some(StoredStatus)
          /\ loading' = FALSE
          /\ error' = Null
          /\ callPc'[c] = "done"
          /\ UNCHANGED <<cache, fetchInProgressRef, race, src, microtasks>>]_vars

\* A call was served from an entry one millisecond before the window's end.
C7_Witness ==
  \E c \in Calls :
    /\ callPc[c] = "done"
    /\ cache # Null
    /\ now - cache[1].timestamp = CACHE_DURATION_MS - 1
    /\ status = Some(StoredStatus)
    /\ ~loading
    /\ error = Null
    /\ \A r \in Calls : race[r].state # "running"

\* C8: a race is won exactly when a source has been fulfilled and has failed
\* exactly when every source has been rejected; its result is the status
\* parsed from the body of the first source that was fulfilled, and a source
\* that ends later does not change it; the call that started the race displays
\* the result, or ends with the error set, and with loading false either way.
C8_RaceOutcome ==
  /\ [](\A r \in Calls :
          /\ race[r].state = "unused" => \A s \in Sources : src[r][s].st = "unused"
          /\ race[r].state = "running" =>
               /\ \A s \in Sources : src[r][s].st \in {"fetching", "reading", "rejected"}
               /\ \E s \in Sources : src[r][s].st # "rejected"
          /\ race[r].state = "won" => \E s \in Sources : src[r][s].st = "fulfilled"
          /\ race[r].state = "failed" => \A s \in Sources : src[r][s].st = "rejected"
          /\ (race[r].state = "won" /\ race[r].result # Null) =>
               /\ race[r].winner \in Sources
               /\ src[r][race[r].winner].st = "fulfilled"
               /\ race[r].result =
                    Some(ParseRSSFeed(src[r][race[r].winner].body[1].items, now)))
  /\ [][\A r \in Calls :
          /\ (race[r].state = "running" /\ race'[r].state = "won") =>
               /\ \A s \in Sources : src[r][s].st # "fulfilled"
               /\ src'[r][race'[r].winner].st = "fulfilled"
          /\ (race[r].state = "won" /\ race[r].result # Null /\ race'[r].result # Null) =>
               race'[r].result = race[r].result /\ race'[r].winner = race[r].winner
          /\ race[r].state \in {"won", "failed"} =>
               race'[r].state \in {race[r].state, "unused"}
          /\ StarterResumes(r, "won") =>
               status' = race[r].result /\ loading' = FALSE /\ callPc'[r] = "done"
          /\ StarterResumes(r, "failed") =>
               /\ error' = Some(ERROR_MESSAGE)
               /\ loading' = FALSE
               /\ status' = status
               /\ callPc'[r] = "done"]_vars

\* The first source was rejected and the second has won the race.
C8_Witness ==
  \E r \in Calls :
    /\ race[r].state = "won"
    /\ IsNext(r)
    /\ src[r][1].st = "rejected"
    /\ race[r].winner = 2
    /\ race[r].result = src[r][2].value

\* C9: a response whose status is not successful, whose body is empty or
\* whose body begins with a JSON object is rejected: an attempt that has
\* returned a status holds an ok response with a body that is neither.
C9_RejectedResponses ==
  \A r \in Calls, s \in Sources :
    (src[r][s].st = "fulfilled" /\ src[r][s].body # Null) =>
      /\ src[r][s].ok
      /\ src[r][s].body[1].text # <<>>
      /\ ~LooksLikeJSON(src[r][s].body[1])

\* C10: every attempt that has not ended is under its timer, so every call of
\* fetchStatus that has begun to await a race completes (loading is false,
\* with a status or an error) and the in-flight record is cleared again.
C10_EveryRefreshCompletes ==
  /\ \A c \in Calls :
       (callPc[c] \in {"waiting", "racing"}) ~>
         (callPc[c] = "done" /\ ~loading /\ (status # Null \/ error # Null))
  /\ (fetchInProgressRef # 0) ~> (fetchInProgressRef = 0)

\* The text the classifier searches in an entry: title + ' ' + description,
\* in lower case.
Content(item) == ToLowerCase(Combined(item))

HasAny(content, phrases) == \E ph \in phrases : Includes(content, ph)

RelevancePhrases ==
  {<<"parking", " ", "ban">>, <<"winter", " ", "parking">>, <<"overnight", " ", "parking">>}

LiftWords == {<<"lifts">>, <<"lifted">>}

EnforceWords ==
  {<<"enforced">>, <<"will", " ", "be", " ", "enforced">>, <<"in", " ", "effect">>,
   <<"declared">>, <<"announcing">>}

\* The positions of the relevant entries of the feed.
Relevant == {i \in 1..Len(feed) : HasAny(Content(feed[i]), RelevancePhrases)}

\* The entries the returned status was built from.
Selected ==
  {i \in Relevant : /\ feed[i].title = parsed[1].rawTitle
                    /\ feed[i].link = parsed[1].link
                    /\ NewDate(feed[i].pubDate) = parsed[1].lastUpdate}

ZonesImplyActive(st) ==
  (st.zone1Active => st.isActive) /\ (st.zone2Active => st.isActive)

\* C11: in every status parseRSSFeed returns, zone1Active => isActive and
\* zone2Active => isActive; the same holds of the status as setCachedData
\* stores it and as getCachedData gives it back for display.
C11_ZoneFlagsNeedActive ==
  parsed # Null =>
    /\ ZonesImplyActive(parsed[1])
    /\ ZonesImplyActive(SetCachedData(parsed[1], now)[1].status)
    /\ ZonesImplyActive(GetCachedData(SetCachedData(parsed[1], now), now)[1])

\* An entry that names a zone was selected and classified as not active.
C11_Witness ==
  /\ parsed # Null
  /\ ~parsed[1].isActive
  /\ \E i \in Selected : Includes(Content(feed[i]), <<"zone", " ", "2">>)

\* C12: isActive is true exactly when the selected entry's text holds an
\* enforcement keyword and no lift keyword; a lift keyword makes it false
\* also when an enforcement keyword is present.
C12_LiftOverridesEnforce ==
  parsed # Null =>
    /\ Relevant # {} => Selected # {}
    /\ \A i \in Selected :
         parsed[1].isActive = (/\ HasAny(Content(feed[i]), EnforceWords)
                               /\ ~HasAny(Content(feed[i]), LiftWords))

\* The selected entry holds both an enforcement and a lift keyword.
C12_Witness ==
  /\ parsed # Null
  /\ ~parsed[1].isActive
  /\ \E i \in Selected : /\ HasAny(Content(feed[i]), EnforceWords)
                         /\ HasAny(Content(feed[i]), LiftWords)

\* C13: for a feed none of whose entries holds a relevance phrase (the empty
\* feed included) parseRSSFeed returns the default status: not active, no
\* zone active, no enforcement date, the "No recent parking ban
\* announcements" title and the fallback link.
C13_NoRelevantEntryGivesDefault ==
  (parsed # Null /\ Relevant = {}) =>
    /\ ~parsed[1].isActive
    /\ ~parsed[1].zone1Active
    /\ ~parsed[1].zone2Active
    /\ parsed[1].enforcementDate = NullText
    /\ parsed[1].rawTitle = <<"No recent parking ban announcements">>
    /\ parsed[1].link =
         <<"https://www.halifax.ca/transportation/winter-operations/parking-ban">>

\* A feed with entries, one of them about parking, none relevant.
C13_Witness ==
  /\ parsed # Null
  /\ Relevant = {}
  /\ \E i \in 1..Len(feed) : Includes(Content(feed[i]), <<"parking">>)

\* The publish time of entry i.
Published(i) == NewDate(feed[i].pubDate)

\* The first relevant entry, in document order, with the latest publish time.
FirstLatest ==
  CHOOSE i \in Relevant :
    /\ \A j \in Relevant : Published(j).ms <= Published(i).ms
    /\ \A j \in Relevant : Published(j).ms = Published(i).ms => i <= j

\* C14: when the relevant entries carry publish timestamps, parseRSSFeed
\* selects the first entry in document order that has the latest one: the
\* later of two distinct timestamps whatever the order, the first of a tie.
C14_LatestEntrySelected ==
  (parsed # Null /\ Relevant # {} /\ \A i \in Relevant : Published(i).valid) =>
    /\ parsed[1].rawTitle = feed[FirstLatest].title
    /\ parsed[1].link = feed[FirstLatest].link
    /\ parsed[1].lastUpdate = Published(FirstLatest)

\* Two relevant entries, the later published one second in the document.
C14_Witness ==
  /\ parsed # Null
  /\ Len(feed) = 2
  /\ Relevant = {1, 2}
  /\ Published(1).valid
  /\ Published(2).valid
  /\ Published(1).ms < Published(2).ms
  /\ parsed[1].rawTitle = feed[2].title

\* C15: a relevant entry whose publish date is missing or unparseable is
\* never selected over a relevant entry with a valid publish date: when the
\* feed holds a relevant entry with a valid date, the selected one has one.
C15_UndatedEntryNeverWins ==
  (parsed # Null /\ \E i \in Relevant : Published(i).valid) =>
    \A i \in Selected : Published(i).valid

\* C16: when the selected entry names neither zone 1 nor zone 2 and the ban
\* is active, both zone flags are true; when it names exactly one zone and
\* "both zone" does not occur, the other zone's flag is false and the named
\* zone's flag is true exactly when the ban is active.
C16_ZoneDefaults ==
  parsed # Null =>
    \A i \in Selected :
      LET z1 == Includes(Content(feed[i]), <<"zone", " ", "1">>)
          z2 == Includes(Content(feed[i]), <<"zone", " ", "2">>)
          both == Includes(Content(feed[i]), <<"both", " ", "zone">>)
      IN  /\ (~z1 /\ ~z2 /\ parsed[1].isActive) =>
               (parsed[1].zone1Active /\ parsed[1].zone2Active)
          /\ (z1 /\ ~z2 /\ ~both) =>
               (parsed[1].zone1Active = parsed[1].isActive /\ ~parsed[1].zone2Active)
          /\ (z2 /\ ~z1 /\ ~both) =>
               (parsed[1].zone2Active = parsed[1].isActive /\ ~parsed[1].zone1Active)

\* An active ban whose entry names no zone: both flags are true.
C16_Witness ==
  /\ parsed # Null
  /\ parsed[1].isActive
  /\ parsed[1].zone1Active
  /\ parsed[1].zone2Active
  /\ \E i \in Selected : /\ ~Includes(Content(feed[i]), <<"zone", " ", "1">>)
                         /\ ~Includes(Content(feed[i]), <<"zone", " ", "2">>)

\* The one-entry feed of the end-to-end scenario.
ScenarioFeed == <<ItemEnforced>>

\* C17 as stated: for the feed with the one entry titled "Parking Ban To Be
\* Enforced Monday, Jan 15" and described by "Zone 1", parseRSSFeed returns
\* isActive, zone1Active, not zone2Active and the enforcement date
\* "Monday Jan 15".
C17_EndToEnd ==
  (parsed # Null /\ feed = ScenarioFeed) =>
    /\ parsed[1].isActive
    /\ parsed[1].zone1Active
    /\ ~parsed[1].zone2Active
    /\ parsed[1].enforcementDate = <<"Monday", " ", "Jan", " ", "1", "5">>

\* C17, amended: for that feed parseRSSFeed returns isActive, zone1Active,
\* not zone2Active and the enforcement date "Monday, Jan 15": the match as
\* it stands in the title, commas kept, periods removed.  The date is taken
\* from the title only: an entry whose date stands in its description gets
\* no enforcement date.
C17_EndToEndKeepsComma ==
  /\ (parsed # Null /\ feed = ScenarioFeed) =>
       /\ parsed[1].isActive
       /\ parsed[1].zone1Active
       /\ ~parsed[1].zone2Active
       /\ parsed[1].enforcementDate = <<"Monday", ",", " ", "Jan", " ", "1", "5">>
  /\ (parsed # Null /\ feed = <<ItemDateInDescription>>) =>
       parsed[1].enforcementDate = NullText

\* The scenario's feed has been parsed.
C17_Witness == parsed # Null /\ feed = ScenarioFeed /\ parsed[1].isActive

\* C20: on both transport paths a body that is not XML, or that carries a
\* bot-challenge marker, is never handed as it is to parseRSSFeed: when the
\* attempt has parsed the very body halifax.ca sent, that body begins as XML
\* and holds no marker; and no attempt returns a status for a bot-challenge
\* page.
C20_NonXMLNeverClassified ==
  attempt.st = "fulfilled" =>
    /\ attempt.body[1] = upstream[1].body =>
         (IsXML(upstream[1].body) /\ ~IsBotBlock(upstream[1].body))
    /\ ~IsBotBlock(upstream[1].body)

\* Two decimal digits.
TwoDigits(n) == <<DigitChars[(n \div 10) + 1], DigitChars[(n % 10) + 1]>>

\* The whole seconds from local time t to the next 01:00: today's before
\* 01:00, tomorrow's otherwise.
SecondsToNextOne(t) ==
  ((IF t < HMS(1, 0, 0) THEN HMS(1, 0, 0) ELSE HMS(25, 0, 0)) - t) \div 1000

\* The countdown for status st at local time t.
ExpectedCountdown(st, t) ==
  IF st = Null \/ ~st[1].isActive THEN Null
  ELSE IF t >= HMS(1, 0, 0) /\ t < HMS(6, 0, 0) THEN Some(<<"IN EFFECT NOW">>)
  ELSE LET left == SecondsToNextOne(t)
       IN  Some(TwoDigits(left \div 3600) \o <<":">>
                  \o TwoDigits((left \div 60) % 60) \o <<":">>
                  \o TwoDigits(left % 60))

\* C18: the countdown is absent while the status is absent or not active;
\* when status.isActive changes, and at every tick of the interval, it is
\* set from the clock as read then: "IN EFFECT NOW" from 01:00 to before
\* 06:00, else the time to the next 01:00 as HH:MM:SS; "IN EFFECT NOW" at
\* 02:00 and "01:30:00" at 23:30.
C18_CountdownFromClock ==
  /\ [](mounted /\ (status = Null \/ ~status[1].isActive) => countdown = Null)
  /\ [][/\ (mounted /\ IsActiveDep(status') # IsActiveDep(status)) =>
             countdown' = ExpectedCountdown(status', clock)
        /\ (mounted /\ UNCHANGED <<status, clock, mounted>>) =>
             countdown' = ExpectedCountdown(status, clock)]_vars
  /\ [](countdown # Null =>
          \E t \in ClockTimes : countdown = ExpectedCountdown(status, t))
  /\ ExpectedCountdown(Some([isActive |-> TRUE]), HMS(2, 0, 0)) = Some(<<"IN EFFECT NOW">>)
  /\ ExpectedCountdown(Some([isActive |-> TRUE]), HMS(23, 30, 0))
       = Some(<<"0", "1", ":", "3", "0", ":", "0", "0">>)

\* At 23:30 the countdown of an active ban reads 01:30:00 after the clock
\* had been read at another time before.
C18_Witness ==
  /\ mounted
  /\ status # Null
  /\ status[1].isActive
  /\ clock = HMS(23, 30, 0)
  /\ countdown = Some(<<"0", "1", ":", "3", "0", ":", "0", "0">>)
  /\ timersMade >= 2

WorkerAnswered ==
  via = 1 /\ handler = "entry" /\ method = "GET" /\ response # Null

\* halifax.ca sent a body that holds a bot-challenge marker.
ChallengeSent == ~upstream[1].failed /\ IsBotBlock(upstream[1].body)

\* The response is a JSON error object with a status outside 200..299; it is
\* neither the upstream body nor the empty feed.
IsProxyError(resp) ==
  /\ LooksLikeJSON(resp.body)
  /\ Includes(resp.body.text, <<"\"error\"">>)
  /\ ~Ok(resp)
  /\ resp.body # upstream[1].body
  /\ resp.body # EMPTY_FEED

\* C21 as stated: whenever the upstream body holds "Just a moment..." or
\* "cf-browser-verification", the Worker entry point answers with a JSON
\* error object of status 503, never the upstream body and never the empty
\* feed, and the client rejects that response.
C21_ChallengeGives503 ==
  (WorkerAnswered /\ ChallengeSent) =>
    /\ IsProxyError(response[1])
    /\ response[1].status = 503
    /\ attempt.st # "fulfilled"
    /\ attempt.st # "fetching" => attempt = Rejected

\* C21: whenever the upstream body holds a bot-challenge marker, the Worker
\* entry point answers with a JSON error object whose status is outside
\* 200..299, never with the upstream body or the empty feed, and the client
\* rejects that response; the status is 503 when the upstream status was ok
\* and the upstream's own status when it was not.
C21_ChallengeGivesProxyError ==
  (WorkerAnswered /\ ChallengeSent) =>
    /\ IsProxyError(response[1])
    /\ response[1].status = (IF Ok(upstream[1]) THEN 503 ELSE upstream[1].status)
    /\ attempt.st # "fulfilled"
    /\ attempt.st # "fetching" => attempt = Rejected

\* An ok upstream response held a challenge page: the Worker answered 503
\* and the attempt has rejected it.
C21_Witness ==
  /\ WorkerAnswered
  /\ upstream[1] = MkUpstream(FALSE, 200, BodyBotChallenge)
  /\ response[1] = JsonError(503)
  /\ attempt = Rejected

\* The three kinds of answer of GET /api/rss.
IsVerbatimXML(resp) ==
  resp.status = 200 /\ resp.body = upstream[1].body /\ IsXML(resp.body)

IsEmptyFeed(resp) == resp.status = 200 /\ resp.body = EMPTY_FEED

IsJsonError(resp) ==
  LooksLikeJSON(resp.body) /\ Includes(resp.body.text, <<"\"error\"">>) /\ ~Ok(resp)

\* How many of the three kinds the response is of.
KindsOf(resp) ==
  Cardinality({k \in 1..3 : \/ k = 1 /\ IsVerbatimXML(resp)
                            \/ k = 2 /\ IsEmptyFeed(resp)
                            \/ k = 3 /\ IsJsonError(resp)})

\* C22: every answer of the Worker entry point to GET /api/rss is of exactly
\* one of three kinds: the upstream XML as it is with status 200, when the
\* upstream status is ok and the body is XML without a bot marker; the
\* minimal empty feed with status 200, when the upstream status is ok and
\* the body is neither XML nor a bot challenge (the empty body included); a
\* JSON error object with a status outside 200..299, when the upstream
\* status is not ok, the body is a bot challenge, or the request timed out
\* or failed.  The client's attempt turns the empty feed into the default,
\* not active status.
C22_ThreeKindsOfAnswer ==
  WorkerAnswered =>
    LET up == upstream[1]
        resp == response[1]
        bad == up.failed \/ ~Ok(up) \/ IsBotBlock(up.body)
    IN  /\ KindsOf(resp) = 1
        /\ IsJsonError(resp) <=> bad
        /\ IsVerbatimXML(resp) <=> (~bad /\ IsXML(up.body))
        /\ IsEmptyFeed(resp) <=> (~bad /\ ~IsXML(up.body))
        /\ (IsEmptyFeed(resp) /\ attempt.st # "fetching") =>
             /\ attempt.st = "fulfilled"
             /\ attempt.value = Some(DefaultStatus(now))
             /\ ~attempt.value[1].isActive

\* An ok upstream response with an empty body: the Worker sent the empty
\* feed and the attempt returned the default status.
C22_Witness ==
  /\ WorkerAnswered
  /\ upstream[1] = MkUpstream(FALSE, 200, BodyEmpty)
  /\ response[1] = MkResponse(200, EMPTY_FEED, TRUE)
  /\ attempt.st = "fulfilled"
  /\ attempt.value = Some(DefaultStatus(now))

\* C23: every response a handler of /api/rss returns, on every path (OPTIONS
\* preflight, success, empty feed, upstream status not ok, bot challenge,
\* timeout or exception), carries Access-Control-Allow-Origin: *.
C23_EveryAnswerCarriesCORS ==
  (via = 1 /\ response # Null) => response[1].cors

\* Source s of race r has not ended.
Pending(r, s) == src[r][s].st \in {"fetching", "reading"}

\* A source of a race that is already won takes a step: its response
\* arrives, its request fails or times out, its body arrives or fails.
LateLoserSteps(r, s) ==
  /\ race[r].state = "won"
  /\ Pending(r, s)
  /\ src'[r][s] # src[r][s]

\* C24: once a race is won, a source of that race that completes later,
\* successfully or not, changes neither the cache, nor the status, the error
\* or the loading flag, nor the in-flight record, nor any other race.
C24_LateLoserChangesNothing ==
  [][\A r \in Calls, s \in Sources :
       LateLoserSteps(r, s) =>
         /\ UNCHANGED <<cache, status, error, loading, fetchInProgressRef>>
         /\ UNCHANGED <<callPc, awaiting, microtasks>>
         /\ \A q \in Calls \ {r} : race'[q] = race[q] /\ src'[q] = src[q]]_vars

\* Race 1 is won and displayed, one of its sources is still reading its
\* body, and call 2 has meanwhile found the entry expired and begun a race
\* of its own, which the in-flight record holds.
C24_Witness ==
  /\ race[1].state = "won"
  /\ \E s \in Sources : src[1][s].st = "reading"
  /\ status # Null
  /\ cache = Null
  /\ race[2].state = "running"
  /\ fetchInProgressRef = 2

StatusFields ==
  {"isActive", "zone1Active", "zone2Active", "enforcementDate", "enforcementTime",
   "lastUpdate", "rawTitle", "link"}

\* A status with every field of ParkingBanStatus.
IsBanStatus(st) ==
  /\ DOMAIN st = StatusFields
  /\ st.isActive \in BOOLEAN
  /\ st.zone1Active \in BOOLEAN
  /\ st.zone2Active \in BOOLEAN
  /\ st.enforcementTime = ENFORCEMENT_TIME
  /\ st.lastUpdate \in {InvalidDate, MkDate(st.lastUpdate.ms)}

NoRelevantItem(items) ==
  \A i \in 1..Len(items) : ~HasAny(Content(items[i]), RelevancePhrases)

\* C25: parseRSSFeed never throws.  An attempt is rejected exactly when its
\* response is not ok or its body begins with '{'; for every other response,
\* whatever the body (empty, HTML, plain text, markup that breaks off, a feed
\* without items, items without children), the attempt is fulfilled with a
\* status that has every field, and with the default status when no item is
\* relevant.  So a race fails, and the error is shown, only when every
\* source failed.
C25_ParserNeverRejects ==
  (response # Null /\ attempt.st \in {"fulfilled", "rejected"}) =>
    LET resp == response[1]
    IN  /\ attempt.st = "rejected" <=> (~Ok(resp) \/ LooksLikeJSON(resp.body))
        /\ attempt.st = "fulfilled" =>
             /\ attempt.value # Null
             /\ IsBanStatus(attempt.value[1])
             /\ NoRelevantItem(resp.body.items) =>
                  attempt.value = Some(DefaultStatus(now))

\* The mirror passed on a feed whose items lack title, pubDate and link: the
\* attempt returned a status with the empty title and link and an invalid
\* date.
C25_Witness ==
  /\ via = 2
  /\ response # Null
  /\ response[1].body = BodyFeedBare
  /\ attempt.st = "fulfilled"
  /\ attempt.value[1].isActive
  /\ attempt.value[1].rawTitle = <<>>
  /\ attempt.value[1].link = <<>>
  /\ attempt.value[1].lastUpdate = InvalidDate

\* C26: whenever a race is outstanding, fetchInProgressRef holds that race's
\* promise, and whenever none is outstanding it is null: no completion and
\* no waiter clears or overwrites the record of a race that is running.
C26_RecordHoldsRunningRace ==
  /\ \A r \in Calls : race[r].state = "running" => fetchInProgressRef = r
  /\ (\A r \in Calls : race[r].state # "running") => fetchInProgressRef = 0

\* After the step no refresh is in progress: no call is waiting or racing
\* and none is about to resume.
QuietAfter ==
  /\ microtasks' = <<>>
  /\ \A c \in Calls : callPc'[c] \in {"idle", "done"}

\* After the step the error is null, loading is false and `result` is the
\* displayed status.
Displays(result) ==
  /\ error' = Null
  /\ loading' = FALSE
  /\ status' = result
  /\ status' # Null

\* C27: no stale error.  When a call ends with the result of the race that
\* has just succeeded (its own or the one it awaited), or with a cache hit,
\* and no refresh is in progress after it, the error is null, loading is
\* false and the displayed status is that result; so a retry from the error
\* state whose race succeeds shows the status.
C27_NoStaleError ==
  [][\A c \in Calls :
       /\ (StarterResumes(c, "won") /\ QuietAfter) => Displays(race[c].result)
       /\ (WaiterResumes(c, "won") /\ QuietAfter) =>
            Displays(race[awaiting[c]].result)
       /\ (Called(c) /\ callPc'[c] = "done" /\ QuietAfter) =>
            Displays(GetCachedData(cache, now))]_vars

\* latestBanItem after the loop of parseRSSFeed over the items: Null or Some.
SelectedItem(items) ==
  LET sel == SelectLatest(items, 1, [item |-> 0, date |-> InvalidDate, set |-> FALSE])
  IN  IF sel.item = 0 THEN Null ELSE Some(items[sel.item])

\* C28: the status depends only on the selected entry.  For any two feeds
\* with the same selected entry parseRSSFeed returns the same status,
\* whatever other entries, relevant or not, older or not, the feeds hold and
\* whatever the clock says; in particular the status is the one of the feed
\* that holds the selected entry alone.
C28_OnlySelectedEntryCounts ==
  (parsed # Null /\ SelectedItem(feed) # Null) =>
    /\ \A other \in Feeds :
         SelectedItem(other) = SelectedItem(feed) =>
           /\ ParseRSSFeed(other, now) = parsed[1]
           /\ ParseRSSFeed(other, now + 1) = parsed[1]
    /\ ParseRSSFeed(<<SelectedItem(feed)[1]>>, now) = parsed[1]

\* The latest relevant entry lifts the ban, an older one announced its
\* enforcement: the status is not active.
C28_Witness ==
  /\ parsed # Null
  /\ feed = <<ItemEnforced, ItemLiftedAndEnforced>>
  /\ SelectedItem(feed) = Some(ItemLiftedAndEnforced)
  /\ ~parsed[1].isActive

\* The proxies call c has asked, in the order of its requests.
RECURSIVE AskedBy(_, _)
AskedBy(c, reqs) ==
  IF reqs = <<>> THEN <<>>
  ELSE IF Head(reqs)[1] = c THEN <<Head(reqs)[2]>> \o AskedBy(c, Tail(reqs))
  ELSE AskedBy(c, Tail(reqs))

\* The step ends call c.
SeqEnds(c) == seqPc[c] # "done" /\ seqPc'[c] = "done"

\* The statuses parseRSSFeed can return for a body.
SeqShown == {Some(SeqParseRSSFeed(b.items, now)) : b \in UpstreamBodies}

\* C29: in the sequential fetcher the proxies are tried strictly in list
\* order, one at a time.  The requests of a call are those to proxies 1..k
\* in that order, k being the proxy in use; a request is sent only when the
\* call begins (proxy 1) or in the step in which the request to the proxy
\* before it failed (status not ok, fetch threw, or the body could not be
\* read).  The first ok response that is read is parsed and displayed and
\* the call ends without a further request; the error message is set only
\* in a step in which the last proxy of the list fails; loading is false
\* when a call ends, either way.
C29_ProxiesInOrder ==
  /\ [](\A c \in SeqCalls :
          /\ AskedBy(c, seqRequests) = [p \in 1..seqProxy[c] |-> p]
          /\ seqPc[c] = "idle" <=> seqProxy[c] = 0)
  /\ [][/\ seqRequests' # seqRequests =>
             \E c \in SeqCalls :
               /\ seqRequests' = Append(seqRequests, <<c, seqProxy[c] + 1>>)
               /\ seqProxy'[c] = seqProxy[c] + 1
               /\ seqPc'[c] = "fetching"
               /\ seqPc[c] \in {"idle", "fetching", "reading"}
               /\ seqStatus' = seqStatus
        /\ \A c \in SeqCalls :
             SeqEnds(c) =>
               /\ seqLoading' = FALSE
               /\ seqRequests' = seqRequests
               /\ \/ /\ seqPc[c] = "reading"
                     /\ seqStatus' \in SeqShown
                     /\ seqError' = seqError
                  \/ /\ seqProxy[c] = NumProxies
                     /\ AskedBy(c, seqRequests) = [p \in Proxies |-> p]
                     /\ seqError' = Some(ERROR_MESSAGE)
                     /\ seqStatus' = seqStatus
        /\ (seqError' # seqError /\ seqError' # Null) =>
             \E c \in SeqCalls : SeqEnds(c) /\ seqProxy[c] = NumProxies
        /\ seqStatus' # seqStatus =>
             \E c \in SeqCalls : SeqEnds(c) /\ seqPc[c] = "reading"]_vars

\* Call 1 has ended: its first proxy failed, its second gave a feed that
\* announces an enforcement; two requests were sent, the status is shown and
\* no error is set.
C29_Witness ==
  /\ seqPc[1] = "done"
  /\ AskedBy(1, seqRequests) = <<1, 2>>
  /\ seqStatus # Null
  /\ seqStatus[1].isActive
  /\ seqError = Null
  /\ ~seqLoading

====
